---- MODULE Spec2Model ----
(***************************************************************************)
(* TritonHTTP: the connection state machine (Server.HandleConnection), the *)
(* request parser (request.go) and the response serializer (response.go).  *)
(* A Go string is a sequence of bytes; a byte is a one-character string.   *)
(***************************************************************************)
EXTENDS Integers, Sequences, FiniteSets, TLC

VARIABLES stream, units, sent, remaining, pc, requests, idx, out, lastRead,
          hmap, hkeys, hout,
          reqUnit, reqLine, reqState, reqErr,
          running, waiting

vars == <<stream, units, sent, remaining, pc, requests, idx, out, lastRead,
          hmap, hkeys, hout,
          reqUnit, reqLine, reqState, reqErr,
          running, waiting>>

connVars == <<stream, units, sent, remaining, pc, requests, idx, out, lastRead>>
hdrVars == <<hmap, hkeys, hout>>
reqVars == <<reqUnit, reqLine, reqState, reqErr>>
schedVars == <<running, waiting>>

\* What a step of a connection handler leaves alone.
otherVars == <<hdrVars, reqVars, schedVars>>

(***************************************************************************)
(* Bytes                                                                   *)
(***************************************************************************)
CR == "\r"
LF == "\n"
TAB == "\t"
FF == "\f"
SP == " "

\* The bytes the model's strings are made of, with their ASCII codes.
UpperLetters ==
  <<"A", "B", "C", "D", "E", "F", "G", "H", "I", "J", "K", "L", "M",
    "N", "O", "P", "Q", "R", "S", "T", "U", "V", "W", "X", "Y", "Z">>
LowerLetters ==
  <<"a", "b", "c", "d", "e", "f", "g", "h", "i", "j", "k", "l", "m",
    "n", "o", "p", "q", "r", "s", "t", "u", "v", "w", "x", "y", "z">>
DigitChars == <<"0", "1", "2", "3", "4", "5", "6", "7", "8", "9">>

PosIn(seq, c) == CHOOSE i \in 1..Len(seq) : seq[i] = c
InSeq(seq, c) == \E i \in 1..Len(seq) : seq[i] = c

\* The byte value of a character.
Ord(c) ==
  CASE c = TAB -> 9
    [] c = LF -> 10
    [] c = FF -> 12
    [] c = CR -> 13
    [] c = SP -> 32
    [] c = "-" -> 45
    [] c = "." -> 46
    [] c = "/" -> 47
    [] c = ":" -> 58
    [] InSeq(DigitChars, c) -> 47 + PosIn(DigitChars, c)
    [] InSeq(UpperLetters, c) -> 64 + PosIn(UpperLetters, c)
    [] InSeq(LowerLetters, c) -> 96 + PosIn(LowerLetters, c)

IsUpper(c) == InSeq(UpperLetters, c)
IsLower(c) == InSeq(LowerLetters, c)

ToLowerByte(c) == IF IsUpper(c) THEN LowerLetters[PosIn(UpperLetters, c)] ELSE c
ToUpperByte(c) == IF IsLower(c) THEN UpperLetters[PosIn(LowerLetters, c)] ELSE c

\* unicode.IsSpace restricted to ASCII, and the regexp class \s.
IsSpace(c) == c \in {SP, TAB, LF, CR, FF}
IsRegexpSpace(c) == c \in {SP, TAB, LF, CR, FF}

(***************************************************************************)
(* The Go string library, as the code uses it.  Indices are Go's: 0-based, *)
(* -1 for "not found"; s[a:b] is Slice(s, a, b).                           *)
(***************************************************************************)
Slice(s, a, b) == SubSeq(s, a + 1, b)

HasPrefixAt(s, sub, i) ==
  /\ i + Len(sub) <= Len(s)
  /\ \A j \in 1..Len(sub) : s[i + j] = sub[j]

Occurrences(s, sub) == {i \in 0..Len(s) : HasPrefixAt(s, sub, i)}

SetMin(S) == CHOOSE x \in S : \A y \in S : x <= y
SetMax(S) == CHOOSE x \in S : \A y \in S : x >= y

\* strings.Index
Index(s, sub) ==
  LET found == Occurrences(s, sub) IN IF found = {} THEN -1 ELSE SetMin(found)

\* strings.LastIndex
LastIndex(s, sub) ==
  LET found == Occurrences(s, sub) IN IF found = {} THEN -1 ELSE SetMax(found)

\* strings.Contains
Contains(s, sub) == Index(s, sub) >= 0

\* strings.Split with a non-empty separator: the pieces between successive
\* non-overlapping occurrences of sep, scanning from the left.
RECURSIVE Split(_, _)
Split(s, sep) ==
  LET i == Index(s, sep) IN
  IF i < 0 THEN <<s>>
  ELSE <<Slice(s, 0, i)>> \o Split(Slice(s, i + Len(sep), Len(s)), sep)

\* strings.SplitN with n > 0: at most n pieces, the last one the unsplit rest.
RECURSIVE SplitN(_, _, _)
SplitN(s, sep, n) ==
  LET i == Index(s, sep) IN
  IF n = 1 \/ i < 0 THEN <<s>>
  ELSE <<Slice(s, 0, i)>> \o SplitN(Slice(s, i + Len(sep), Len(s)), sep, n - 1)

\* strings.ToLower
ToLower(s) == [i \in 1..Len(s) |-> ToLowerByte(s[i])]

\* strings.TrimSpace
RECURSIVE TrimLeft(_)
TrimLeft(s) == IF s # <<>> /\ IsSpace(Head(s)) THEN TrimLeft(Tail(s)) ELSE s
RECURSIVE TrimRight(_)
TrimRight(s) ==
  IF s # <<>> /\ IsSpace(s[Len(s)]) THEN TrimRight(SubSeq(s, 1, Len(s) - 1)) ELSE s
TrimSpace(s) == TrimRight(TrimLeft(s))

\* The concatenation of a sequence of strings, sep between neighbours (strings.Join).
RECURSIVE Join(_, _)
Join(parts, sep) ==
  IF parts = <<>> THEN <<>>
  ELSE IF Len(parts) = 1 THEN parts[1]
  ELSE parts[1] \o sep \o Join(Tail(parts), sep)

\* Byte-wise lexicographic order of Go strings (the order of sort.Strings).
RECURSIVE StrLess(_, _)
StrLess(a, b) ==
  IF b = <<>> THEN FALSE
  ELSE IF a = <<>> THEN TRUE
  ELSE IF a[1] # b[1] THEN Ord(a[1]) < Ord(b[1])
  ELSE StrLess(Tail(a), Tail(b))

RECURSIVE Digits(_)
Digits(n) ==
  IF n < 10 THEN <<DigitChars[n + 1]>>
  ELSE Digits(n \div 10) \o <<DigitChars[(n % 10) + 1]>>

(***************************************************************************)
(* String constants of the program                                         *)
(***************************************************************************)
CRLF == <<CR, LF>>
requestEndDelim == CRLF \o CRLF
Proto == <<"H", "T", "T", "P", "/", "1", ".", "1">>
GET == <<"G", "E", "T">>
sClose == <<"c", "l", "o", "s", "e">>
sHostLower == <<"h", "o", "s", "t">>
sConnLower == <<"c", "o", "n", "n", "e", "c", "t", "i", "o", "n">>
sDate == <<"D", "a", "t", "e">>
sConnection == <<"C", "o", "n", "n", "e", "c", "t", "i", "o", "n">>
sContentType == <<"C", "o", "n", "t", "e", "n", "t", "-", "T", "y", "p", "e">>
sContentLength == <<"C", "o", "n", "t", "e", "n", "t", "-", "L", "e", "n", "g", "t", "h">>
sLastModified == <<"L", "a", "s", "t", "-", "M", "o", "d", "i", "f", "i", "e", "d">>

\* A Go map[string]string: a function from its keys.
EmptyMap == [k \in {} |-> <<>>]
MapPut(m, k, v) == [x \in (DOMAIN m) \cup {k} |-> IF x = k THEN v ELSE m[x]]

(***************************************************************************)
(* Utilities of the package that are called by the code under study        *)
(***************************************************************************)
\* ReadLine: the next CRLF-terminated line of the reader, without the CRLF,
\* and what is left in the reader; an error when no complete line is left.
ReadLine(br) ==
  LET i == Index(br, CRLF) IN
  IF i < 0
  THEN [line |-> br, rest |-> <<>>, err |-> TRUE]
  ELSE [line |-> Slice(br, 0, i), rest |-> Slice(br, i + Len(CRLF), Len(br)), err |-> FALSE]

\* CanonicalHeaderKey: first letter and every letter after a hyphen in upper
\* case, the other letters in lower case.
CanonicalHeaderKey(k) ==
  [i \in 1..Len(k) |->
     IF i = 1 \/ k[i - 1] = "-" THEN ToUpperByte(k[i]) ELSE ToLowerByte(k[i])]

\* FormatTime: a time in the fixed format of the Date header.
FormatTime(t) == <<"t">> \o Digits(t)

\* MIMETypeByExtension
MIMETypeByExtension(ext) ==
  IF ext = <<".", "h", "t", "m", "l">>
  THEN <<"t", "e", "x", "t", "/", "h", "t", "m", "l">>
  ELSE <<"a", "p", "p", "l", "i", "c", "a", "t", "i", "o", "n", "/",
         "o", "c", "t", "e", "t", "-", "s", "t", "r", "e", "a", "m">>

(***************************************************************************)
(* request.go                                                              *)
(***************************************************************************)
\* &Request{Header: make(map[string]string)}
NewRequest ==
  [Method |-> <<>>, URL |-> <<>>, Proto |-> <<>>, Header |-> EmptyMap,
   Host |-> <<>>, Close |-> FALSE]

\* ParseRequestInitLine that splits at every space.
ParseRequestInitLineSplitAll(r, line) ==
  LET fields == Split(line, <<SP>>) IN
  IF Len(fields) # 3
  THEN [req |-> r, err |-> TRUE]
  ELSE [req |-> [r EXCEPT !.Method = fields[1], !.URL = fields[2], !.Proto = fields[3]],
        err |-> FALSE]

\* Request.ParseRequestInitLine: the request after the call, and the error.
ParseRequestInitLine(r, line) ==
  LET fields == SplitN(line, <<SP>>, 3) IN
  IF Len(fields) # 3
  THEN [req |-> r, err |-> TRUE]
  ELSE [req |-> [r EXCEPT !.Method = fields[1], !.URL = fields[2], !.Proto = fields[3]],
        err |-> FALSE]

\* The end of the run of \s bytes that starts at index i of s.
RECURSIVE SkipSpace(_, _)
SkipSpace(s, i) ==
  IF i < Len(s) /\ IsRegexpSpace(s[i + 1]) THEN SkipSpace(s, i + 1) ELSE i

\* regexp.MustCompile(`:\s*`).Split(line, 2), for a non-empty line.
SplitHeader(line) ==
  LET colon == Index(line, <<":">>) IN
  IF colon < 0 THEN <<line>>
  ELSE <<Slice(line, 0, colon), Slice(line, SkipSpace(line, colon + 1), Len(line))>>

\* ParseRequestHeader that never resets Close.
ParseRequestHeaderSticky(r, line) ==
  LET header == SplitHeader(line) IN
  IF Len(header) = 2
  THEN LET key == ToLower(header[1])
           value == header[2]
       IN IF (key # <<>> /\ key[Len(key)] = SP) \/ Len(key) = 0
          THEN [req |-> r, err |-> TRUE]
          ELSE CASE key = sConnLower ->
                      [req |-> [r EXCEPT !.Close = r.Close \/ (TrimSpace(value) = sClose)],
                       err |-> FALSE]
                 [] key = sHostLower ->
                      [req |-> [r EXCEPT !.Host = value], err |-> FALSE]
                 [] OTHER ->
                      [req |-> [r EXCEPT !.Header = MapPut(r.Header, header[1], header[2])],
                       err |-> FALSE]
  ELSE [req |-> r, err |-> TRUE]

\* Request.ParseRequestHeader: the request after the call, and the error.
ParseRequestHeader(r, line) ==
  LET header == SplitHeader(line) IN
  IF Len(header) = 2
  THEN LET key == ToLower(header[1])
           value == header[2]
       IN IF (key # <<>> /\ key[Len(key)] = SP) \/ Len(key) = 0
          THEN [req |-> r, err |-> TRUE]
          ELSE CASE key = sConnLower ->
                      [req |-> [r EXCEPT !.Close = (TrimSpace(value) = sClose)],
                       err |-> FALSE]
                 [] key = sHostLower ->
                      [req |-> [r EXCEPT !.Host = value], err |-> FALSE]
                 [] OTHER ->
                      [req |-> [r EXCEPT !.Header = MapPut(r.Header, header[1], header[2])],
                       err |-> FALSE]
  ELSE [req |-> r, err |-> TRUE]

\* ValidateRequest without the test of Host.
ValidateRequestNoHost(r) ==
  \/ r.Method # GET
  \/ r.URL = <<>> \/ r.URL[1] # "/"
  \/ r.Proto # Proto

\* ValidateRequest without the test of Method.
ValidateRequestAnyMethod(r) ==
  \/ r.URL = <<>> \/ r.URL[1] # "/"
  \/ r.Proto # Proto
  \/ r.Host = <<>>

\* Request.ValidateRequest: TRUE when it returns an error.
ValidateRequest(r) ==
  \/ r.Method # GET
  \/ r.URL = <<>> \/ r.URL[1] # "/"
  \/ r.Proto # Proto
  \/ r.Host = <<>>

\* The header loop of ReadRequest on the reader br.
RECURSIVE ReadHeaders(_, _)
ReadHeaders(r, br) ==
  LET l == ReadLine(br) IN
  IF l.line = <<>> \/ l.err THEN [req |-> r, err |-> FALSE]
  ELSE LET h == ParseRequestHeader(r, l.line) IN
       IF h.err THEN [req |-> r, err |-> TRUE]
       ELSE ReadHeaders(h.req, l.rest)

\* What ReadRequest returns on each of its error paths.
ReadRequestFailure == [req |-> NewRequest, nil |-> TRUE, bytesReceived |-> FALSE, err |-> TRUE]

\* ReadRequest on a reader holding the bytes br: (req, bytesReceived, err);
\* nil tells that the returned pointer is nil.
ReadRequest(br) ==
  LET l == ReadLine(br) IN
  IF l.err THEN ReadRequestFailure
  ELSE LET p == ParseRequestInitLine(NewRequest, l.line) IN
       IF p.err THEN ReadRequestFailure
       ELSE LET h == ReadHeaders(p.req, l.rest) IN
            IF h.err THEN ReadRequestFailure
            ELSE IF ValidateRequest(h.req) THEN ReadRequestFailure
            ELSE [req |-> h.req, nil |-> FALSE, bytesReceived |-> TRUE, err |-> FALSE]

(***************************************************************************)
(* response.go                                                             *)
(***************************************************************************)
\* Response{}
NewResponse == [StatusCode |-> 0, Proto |-> <<>>, Header |-> EmptyMap, FilePath |-> <<>>]

mapStatusWithMessage(code) ==
  CASE code = 200 -> <<"O", "K">>
    [] code = 400 -> <<"B", "a", "d", " ", "R", "e", "q", "u", "e", "s", "t">>
    [] code = 404 -> <<"N", "o", "t", " ", "F", "o", "u", "n", "d">>
    [] OTHER -> <<>>

\* Response.WriteStatusLine: the bytes written.
WriteStatusLine(res) ==
  res.Proto \o <<SP>> \o Digits(res.StatusCode) \o <<SP>>
    \o mapStatusWithMessage(res.StatusCode) \o CRLF

\* The orders in which a range over a map with key set S can yield the keys.
RECURSIVE RangeOrders(_)
RangeOrders(S) ==
  IF S = {} THEN {<<>>}
  ELSE UNION {{<<k>> \o rest : rest \in RangeOrders(S \ {k})} : k \in S}

\* SortStrings that leaves the keys in the order of the range.
Unsorted(keys) == keys

\* Insertion of the string k into the ascending sequence sorted.
RECURSIVE InsertSorted(_, _)
InsertSorted(sorted, k) ==
  IF sorted = <<>> THEN <<k>>
  ELSE IF StrLess(k, Head(sorted)) THEN <<k>> \o sorted
  ELSE <<Head(sorted)>> \o InsertSorted(Tail(sorted), k)

\* sort.Strings(keys)
RECURSIVE SortStrings(_)
SortStrings(keys) ==
  IF keys = <<>> THEN <<>>
  ELSE InsertSorted(SortStrings(SubSeq(keys, 1, Len(keys) - 1)), keys[Len(keys)])

\* The loop of WriteSortedHeaders over the sorted keys.
RECURSIVE HeaderLines(_, _)
HeaderLines(header, keys) ==
  IF keys = <<>> THEN <<>>
  ELSE Head(keys) \o <<":", SP>> \o header[Head(keys)] \o CRLF
         \o HeaderLines(header, Tail(keys))

\* Response.WriteSortedHeaders: the bytes written, when the range over
\* res.Header yields the keys in the order ranged.
WriteSortedHeaders(header, ranged) ==
  (IF Len(ranged) # 0 THEN HeaderLines(header, SortStrings(ranged)) ELSE <<>>) \o CRLF

(***************************************************************************)
(* The file system the server runs on.  Paths are rooted and clean.        *)
(***************************************************************************)
DocRoot == <<"/", "r">>

FileA == <<"/", "r", "/", "a">>
DirD == <<"/", "r", "/", "d">>
IndexD == <<"/", "r", "/", "d", "/", "i", "n", "d", "e", "x", ".", "h", "t", "m", "l">>
DirE == <<"/", "r", "/", "e">>
FileDotDotH == <<"/", "r", "/", ".", ".", "h">>
FileOutside == <<"/", "x">>

Paths == {<<"/">>, DocRoot, FileA, DirD, IndexD, DirE, FileDotDotH, FileOutside}

\* The entry of an existing path: its mode, its modification time and, for a
\* regular file, its content.
FileInfo(p) ==
  CASE p = FileA -> [mode |-> "regular", modTime |-> 3, content |-> <<"x", "y", "z">>]
    [] p = IndexD -> [mode |-> "regular", modTime |-> 4,
                      content |-> <<"<", "h", "1", ">", "i", "n", "d", "e", "x",
                                    "<", "/", "h", "1", ">">>]
    [] p = FileDotDotH -> [mode |-> "regular", modTime |-> 5, content |-> <<>>]
    [] p = FileOutside -> [mode |-> "regular", modTime |-> 6, content |-> <<"s">>]
    [] OTHER -> [mode |-> "dir", modTime |-> 2, content |-> <<>>]

\* os.Lstat / os.Stat fail on a path that does not exist.
StatFails(p) == p \notin Paths

\* time.Now()
Now == 9

\* The elements of a slash-separated path that path.Clean keeps, in order:
\* empty elements and "." are dropped, ".." removes the element before it
\* (and is dropped at the root).
RECURSIVE CleanElements(_, _)
CleanElements(elems, kept) ==
  IF elems = <<>> THEN kept
  ELSE IF Head(elems) = <<>> \/ Head(elems) = <<".">> THEN CleanElements(Tail(elems), kept)
  ELSE IF Head(elems) = <<".", ".">>
       THEN CleanElements(Tail(elems),
                          IF kept = <<>> THEN kept ELSE SubSeq(kept, 1, Len(kept) - 1))
  ELSE CleanElements(Tail(elems), Append(kept, Head(elems)))

Elements(p) == CleanElements(Split(p, <<"/">>), <<>>)

\* path.Clean of a rooted path
Clean(p) == <<"/">> \o Join(Elements(p), <<"/">>)

\* path.Join(a, b), both non-empty
PathJoin(a, b) == Clean(a \o <<"/">> \o b)

\* The number of leading elements two element lists share.
RECURSIVE CommonPrefix(_, _)
CommonPrefix(a, b) ==
  IF a # <<>> /\ b # <<>> /\ Head(a) = Head(b)
  THEN 1 + CommonPrefix(Tail(a), Tail(b))
  ELSE 0

\* filepath.Rel(base, targ) of two rooted paths (it cannot fail on those).
Rel(base, targ) ==
  LET b == Elements(base)
      t == Elements(targ)
      c == CommonPrefix(b, t)
  IN IF c = Len(b) /\ c = Len(t) THEN <<".">>
     ELSE Join([i \in 1..(Len(b) - c) |-> <<".", ".">>] \o SubSeq(t, c + 1, Len(t)), <<"/">>)

\* filepath.Ext: the suffix of the last element that starts at its last dot.
Ext(p) ==
  IF LastIndex(p, <<".">>) > LastIndex(p, <<"/">>)
  THEN Slice(p, LastIndex(p, <<".">>), Len(p))
  ELSE <<>>

\* ReadFilePath(fileName, url): the path returned, and the error.
ReadFilePath(fileName, url) ==
  IF StatFails(fileName) THEN [fileName |-> fileName, err |-> TRUE]
  ELSE IF FileInfo(fileName).mode = "regular"
       THEN [fileName |-> fileName, err |-> (url[Len(url)] = "/")]
  ELSE IF url[Len(url)] # "/" THEN [fileName |-> fileName, err |-> TRUE]
  ELSE [fileName |-> PathJoin(fileName, <<".", "/", "i", "n", "d", "e", "x", ".", "h", "t", "m", "l">>),
        err |-> FALSE]

\* WithClose that never adds the header.
WithCloseNever(header, req) == header

\* The Connection header that HandleGoodRequest adds for a closing request.
WithClose(header, req) ==
  IF req.Close THEN MapPut(header, CanonicalHeaderKey(sConnection), sClose) ELSE header

\* The guard of HandleGoodRequest against leaving the document root.
EscapesRoot(fileRel) == Len(fileRel) >= 2 /\ Slice(fileRel, 0, 2) = <<".", ".">>

\* Server.HandleGoodRequest
HandleGoodRequest(req) ==
  LET res == [NewResponse EXCEPT
                !.StatusCode = 200,
                !.Header = WithClose(MapPut(EmptyMap, CanonicalHeaderKey(sDate), FormatTime(Now)), req)]
      fileName == PathJoin(DocRoot, req.URL)
      found == ReadFilePath(fileName, req.URL)
  IN IF EscapesRoot(Rel(DocRoot, fileName)) THEN [res EXCEPT !.StatusCode = 404]
     ELSE IF found.err THEN [res EXCEPT !.StatusCode = 404]
     ELSE IF StatFails(found.fileName) THEN [res EXCEPT !.StatusCode = 404]
     ELSE [res EXCEPT
             !.Header = WithClose(
                [k \in {CanonicalHeaderKey(sDate), CanonicalHeaderKey(sContentType),
                        CanonicalHeaderKey(sContentLength), CanonicalHeaderKey(sLastModified)} |->
                   CASE k = CanonicalHeaderKey(sDate) -> FormatTime(Now)
                     [] k = CanonicalHeaderKey(sContentType) ->
                          MIMETypeByExtension(Ext(found.fileName))
                     [] k = CanonicalHeaderKey(sContentLength) ->
                          Digits(Len(FileInfo(found.fileName).content))
                     [] OTHER -> FormatTime(FileInfo(found.fileName).modTime)],
                req),
             !.FilePath = found.fileName]

\* Response.HandleOK
HandleOK(res) == [res EXCEPT !.StatusCode = 200, !.Proto = Proto]

\* Response.HandleBadRequest
HandleBadRequest(res) ==
  [res EXCEPT !.StatusCode = 400, !.Proto = Proto,
              !.Header = MapPut(MapPut(EmptyMap, CanonicalHeaderKey(sDate), FormatTime(Now)),
                                CanonicalHeaderKey(sConnection), sClose),
              !.FilePath = <<>>]

\* Response.HandleNotFound
HandleNotFound(res) == [res EXCEPT !.StatusCode = 404, !.Proto = Proto, !.FilePath = <<>>]

\* Response.WriteBody: the bytes written.  Nothing when there is no file to
\* serve or when the file cannot be read.
WriteBody(res) ==
  IF res.FilePath = <<>> THEN <<>>
  ELSE IF StatFails(res.FilePath) \/ FileInfo(res.FilePath).mode # "regular" THEN <<>>
  ELSE FileInfo(res.FilePath).content

\* Response.Write: the three writes, in the order they are made.
Write(res, ranged) ==
  [statusLine |-> WriteStatusLine(res),
   headers |-> WriteSortedHeaders(res.Header, ranged),
   body |-> WriteBody(res)]

(***************************************************************************)
(* The client: the byte stream sent on the connection                      *)
(***************************************************************************)
MaxReqs == 2
MaxChunk == 4

sHost == <<"H", "o", "s", "t">>
hostH == [key |-> sHost, value |-> <<"h">>]
connClose == [key |-> sConnection, value |-> sClose]

\* A request unit as the client composes it: the fields of its request line
\* and its header lines.  A header line with an empty key is sent as its
\* value alone, without a colon.
Unit(method, target, version, hdrs) ==
  [fields |-> <<method, target, version>>, hdrs |-> hdrs]

RECURSIVE RenderHeaders(_)
RenderHeaders(hdrs) ==
  IF hdrs = <<>> THEN <<>>
  ELSE (IF Head(hdrs).key = <<>> THEN Head(hdrs).value
        ELSE Head(hdrs).key \o <<":", SP>> \o Head(hdrs).value)
         \o CRLF \o RenderHeaders(Tail(hdrs))

\* The text of a unit without its terminator, and with it.
UnitText(u) ==
  LET all == Join(u.fields, <<SP>>) \o CRLF \o RenderHeaders(u.hdrs)
  IN Slice(all, 0, Len(all) - Len(CRLF))
UnitBytes(u) == UnitText(u) \o requestEndDelim

tA == <<"/", "a">>
tB == <<"/", "b">>
HTTP10 == <<"H", "T", "T", "P", "/", "1", ".", "0">>

\* Units that are sent one after another on a connection.
PipelineUnits ==
  { Unit(GET, tA, Proto, <<hostH>>),
    Unit(GET, tB, Proto, <<hostH>>),
    Unit(GET, tA, Proto, <<hostH, connClose>>),
    Unit(<<"P", "O", "S", "T">>, tA, Proto, <<hostH>>) }

\* Units that are sent alone on a connection.
SingleUnits ==
  { Unit(GET, tB, Proto, <<hostH, connClose>>),
    Unit(GET, <<"/", "d", "/">>, Proto, <<hostH>>),
    Unit(GET, <<"/", "d">>, Proto, <<hostH>>),
    Unit(GET, <<"/", "a", "/">>, Proto, <<hostH>>),
    Unit(GET, <<"/", "e", "/">>, Proto, <<hostH>>),
    Unit(GET, <<"/", ".", ".", "/", "x">>, Proto, <<hostH>>),
    Unit(GET, <<"/", ".", ".", "h">>, Proto, <<hostH>>),
    Unit(GET, <<"/", "d", "/", ".", ".", "/", "a">>, Proto, <<hostH>>),
    Unit(GET, <<"a">>, Proto, <<hostH>>),
    Unit(GET, <<>>, Proto, <<hostH>>),
    Unit(GET, tA, HTTP10, <<hostH>>),
    Unit(GET, tA, Proto, <<>>),
    Unit(GET, tA, Proto, <<[key |-> sHost, value |-> <<>>]>>),
    Unit(GET, tA, Proto, <<hostH, [key |-> sHostLower, value |-> <<>>]>>),
    Unit(GET, tA, Proto, <<[key |-> <<>>, value |-> <<"h">>], hostH>>),
    Unit(GET, tA, Proto, <<[key |-> <<"H", "o", "s", "t", " ">>, value |-> <<"h">>]>>),
    Unit(GET, tA, Proto, <<hostH, [key |-> <<"A">>, value |-> <<"b">>]>>),
    Unit(GET, tA, Proto, <<hostH, [key |-> sConnLower, value |-> <<"c", "l", "o", "s", "e", " ">>]>>),
    Unit(GET, tA, Proto, <<hostH, connClose, [key |-> sConnection, value |-> <<"k">>]>>),
    Unit(GET, tA, Proto, <<hostH, [key |-> sConnection, value |-> <<"C", "l", "o", "s", "e">>]>>) }

\* What the client sends after its last complete unit.
Tails == {<<>>, GET \o <<SP>> \o tA \o <<SP>> \o Proto \o CRLF, CRLF}

RECURSIVE SeqsUpTo(_, _)
SeqsUpTo(S, n) ==
  IF n = 0 THEN {<<>>}
  ELSE SeqsUpTo(S, n - 1) \cup {Append(q, x) : q \in {r \in SeqsUpTo(S, n - 1) : Len(r) = n - 1}, x \in S}

UnitSeqs == SeqsUpTo(PipelineUnits, MaxReqs) \cup {<<u>> : u \in SingleUnits}

RECURSIVE Concat(_)
Concat(texts) == IF texts = <<>> THEN <<>> ELSE Head(texts) \o Concat(Tail(texts))

StreamOf(us, tail) == Concat([i \in 1..Len(us) |-> UnitBytes(us[i])]) \o tail

(***************************************************************************)
(* Server.HandleConnection, for one accepted connection                    *)
(*                                                                         *)
(*   stream, units  what the client sends: the bytes, and the units they   *)
(*                  start with                                             *)
(*   sent           how many bytes of stream the server has read           *)
(*   remaining      the variable remaining                                 *)
(*   pc             "read": at the top of the loop; "batch": in the loop    *)
(*                  over requests; "closed": conn.Close() was called and    *)
(*                  the handler returned                                    *)
(*   requests, idx  the slice requests and the position of the range loop  *)
(*   out            what was written to conn, one entry per Response.Write *)
(*   lastRead       what the latest conn.Read returned: "data" (size > 0,  *)
(*                  no error), "timeout", "EOF", "error" (another error),  *)
(*                  "zero" (size 0, no error); "none" before the first     *)
(*                                                                         *)
(* conn.SetReadDeadline fails only on a connection that is already closed, *)
(* and the handler returns as soon as it closes conn: that branch is not   *)
(* reachable.  Errors of the writes are ignored by the code.               *)
(***************************************************************************)
BufSize == 8192

\* One Response.Write to conn: the response, what it was written for
\* (cause, text, req) and the bytes.
Written(res, cause, text, rr, ranged) ==
  [res |-> res, cause |-> cause, text |-> text, valid |-> ~rr.nil, req |-> rr.req,
   wire |-> Write(res, ranged)]

ConnInit ==
  /\ units \in UnitSeqs
  /\ \E tail \in Tails : stream = StreamOf(units, tail)
  /\ sent = 0
  /\ remaining = <<>>
  /\ pc = "read"
  /\ requests = <<>>
  /\ idx = 0
  /\ out = <<>>
  /\ lastRead = "none"

HdrIdle == hmap = EmptyMap /\ hkeys = <<>> /\ hout = <<>>

ReqIdle ==
  /\ reqUnit = [fields |-> <<>>, hdrs |-> <<>>]
  /\ reqLine = 0
  /\ reqState = NewRequest
  /\ reqErr = FALSE

\* One handler only.
SchedIdle == running = 1 /\ waiting = <<>>

Init == ConnInit /\ HdrIdle /\ ReqIdle /\ SchedIdle

\* The sizes a successful conn.Read can return when left bytes are on their way.
ReadSizes(left) == {n \in 1..left : n <= BufSize /\ (n <= MaxChunk \/ n = left)}

\* SplitRequests with the candidates in the opposite order.
SplitRequestsReversed(buf) ==
  LET rs == Split(Slice(buf, 0, LastIndex(buf, requestEndDelim)), requestEndDelim)
  IN [i \in 1..Len(rs) |-> rs[Len(rs) + 1 - i]]

\* strings.Split(remaining[:index], requestEndDelim), lines 109-110
SplitRequests(buf) == Split(Slice(buf, 0, LastIndex(buf, requestEndDelim)), requestEndDelim)

\* TailAfter that cuts behind the first terminator.
TailAfterFirst(buf) == Slice(buf, Index(buf, requestEndDelim) + 4, Len(buf))

\* remaining[index+4:], line 139
TailAfter(buf) == Slice(buf, LastIndex(buf, requestEndDelim) + 4, Len(buf))

\* ReadData that looks for the terminator in the bytes just read.
ReadDataChunkOnly(n) ==
  /\ pc = "read"
  /\ n \in ReadSizes(Len(stream) - sent)
  /\ sent' = sent + n
  /\ remaining' = remaining \o SubSeq(stream, sent + 1, sent + n)
  /\ IF Contains(SubSeq(stream, sent + 1, sent + n), requestEndDelim)
     THEN /\ requests' = SplitRequests(remaining')
          /\ idx' = 1
          /\ pc' = "batch"
     ELSE UNCHANGED <<requests, idx, pc>>
  /\ lastRead' = "data"
  /\ UNCHANGED <<stream, units, out>>
  /\ UNCHANGED otherVars

\* Lines 85-110 when conn.Read returns n > 0 bytes and no error.
ReadData(n) ==
  /\ pc = "read"
  /\ n \in ReadSizes(Len(stream) - sent)
  /\ sent' = sent + n
  /\ remaining' = remaining \o SubSeq(stream, sent + 1, sent + n)
  /\ IF Contains(remaining', requestEndDelim)
     THEN /\ requests' = SplitRequests(remaining')
          /\ idx' = 1
          /\ pc' = "batch"
     ELSE UNCHANGED <<requests, idx, pc>>
  /\ lastRead' = "data"
  /\ UNCHANGED <<stream, units, out>>
  /\ UNCHANGED otherVars

\* conn.Close() and return, nothing written.
SilentClose ==
  /\ pc' = "closed"
  /\ UNCHANGED <<stream, units, sent, remaining, requests, idx, out>>

\* PartialHeader without the 400 response.
PartialHeaderSilent == SilentClose

\* Lines 86-93: the read failed or returned nothing, with bytes buffered.
PartialHeader ==
  /\ LET res == HandleBadRequest(NewResponse) IN
     \E ranged \in RangeOrders(DOMAIN res.Header) :
       out' = Append(out, Written(res, "read", remaining, ReadRequestFailure, ranged))
  /\ pc' = "closed"
  /\ UNCHANGED <<stream, units, sent, remaining, requests, idx>>

\* ReadTimeout without the test of remaining.
ReadTimeoutAlways400 ==
  /\ pc = "read"
  /\ lastRead' = "timeout"
  /\ PartialHeader
  /\ UNCHANGED otherVars

\* Lines 85-103 when conn.Read returns a timeout error.
ReadTimeout ==
  /\ pc = "read"
  /\ lastRead' = "timeout"
  /\ IF remaining # <<>> THEN PartialHeader ELSE SilentClose
  /\ UNCHANGED otherVars

\* Lines 85-97 when conn.Read returns io.EOF.
ReadEOF ==
  /\ pc = "read"
  /\ lastRead' = "EOF"
  /\ IF remaining # <<>> THEN PartialHeader ELSE SilentClose
  /\ UNCHANGED otherVars

\* Lines 104-141 after a read that brought no byte and took no return: the
\* empty string is appended, no terminator is found, the loop goes on.
NoReturn == UNCHANGED <<stream, units, sent, remaining, pc, requests, idx, out>>

\* Lines 85-141 when conn.Read returns an error that is neither io.EOF nor
\* a timeout: with nothing buffered no branch returns.
ReadError ==
  /\ pc = "read"
  /\ lastRead' = "error"
  /\ IF remaining # <<>> THEN PartialHeader ELSE NoReturn
  /\ UNCHANGED otherVars

\* Lines 85-141 when conn.Read returns 0 bytes and no error.
ReadZero ==
  /\ pc = "read"
  /\ lastRead' = "zero"
  /\ IF remaining # <<>> THEN PartialHeader ELSE NoReturn
  /\ UNCHANGED otherVars

\* The response written for a valid request, lines 123-129.
GoodResponse(req) ==
  LET res == HandleGoodRequest(req) IN
  IF res.StatusCode = 404 THEN HandleNotFound(res) ELSE HandleOK(res)

\* What follows the write of a response, lines 132-139: close, the next
\* request of the batch, or the end of the batch.
AfterResponse(close) ==
  IF close
  THEN /\ pc' = "closed"
       /\ UNCHANGED <<remaining, requests, idx>>
  ELSE IF idx < Len(requests)
  THEN /\ idx' = idx + 1
       /\ UNCHANGED <<pc, remaining, requests>>
  ELSE /\ remaining' = TailAfter(remaining)
       /\ requests' = <<>>
       /\ idx' = 0
       /\ pc' = "read"

\* ShouldClose that never closes, and that closes after every 404.
ShouldCloseNever(req, res) == FALSE
ShouldCloseOn404(req, res) == req.Close \/ res.StatusCode = 404

\* The test of line 133.
ShouldClose(req, res) == req.Close

\* AfterBadRequest that goes on with the batch.
AfterBadRequestContinue == AfterResponse(FALSE)

\* Lines 118-119 after the 400 response: conn.Close() and return.
AfterBadRequest ==
  /\ pc' = "closed"
  /\ UNCHANGED <<remaining, requests, idx>>

\* One pass of the loop over requests, lines 111-138 (and line 139 after the
\* last pass).
ProcessRequest ==
  /\ pc = "batch"
  /\ LET request == requests[idx]
         rr == ReadRequest(request \o CRLF)
     IN IF rr.err
        THEN LET res == HandleBadRequest(NewResponse) IN
             /\ \E ranged \in RangeOrders(DOMAIN res.Header) :
                  out' = Append(out, Written(res, "request", request, rr, ranged))
             /\ AfterBadRequest
        ELSE LET res == GoodResponse(rr.req) IN
             /\ \E ranged \in RangeOrders(DOMAIN res.Header) :
                  out' = Append(out, Written(res, "request", request, rr, ranged))
             /\ AfterResponse(ShouldClose(rr.req, res))
  /\ UNCHANGED <<stream, units, sent, lastRead>>
  /\ UNCHANGED otherVars

Next ==
  \/ \E n \in ReadSizes(Len(stream) - sent) : ReadData(n)
  \/ ReadTimeout
  \/ ReadEOF
  \/ ReadError
  \/ ReadZero
  \/ ProcessRequest

Spec == Init /\ [][Next]_vars

(***************************************************************************)
(* Response.WriteSortedHeaders on its own: a header map hmap is serialized *)
(* once; hkeys is the order in which the range over the map yielded the    *)
(* keys, hout the bytes written.                                           *)
(***************************************************************************)
HeaderKeys == {sDate, sConnection, sContentType, sContentLength, sLastModified,
               <<"C", "o", "n", "t", "e", "n", "t">>}
HeaderValues == {<<"v">>, <<>>}
HeaderMaps == {[k \in K |-> v] : K \in SUBSET HeaderKeys, v \in HeaderValues}

ConnIdle ==
  /\ stream = <<>> /\ units = <<>> /\ sent = 0 /\ remaining = <<>>
  /\ pc = "closed" /\ requests = <<>> /\ idx = 0 /\ out = <<>> /\ lastRead = "none"

HdrInit ==
  /\ ConnIdle
  /\ ReqIdle
  /\ SchedIdle
  /\ hmap \in HeaderMaps
  /\ hkeys = <<>>
  /\ hout = <<>>

SerializeHeaders ==
  /\ hout = <<>>
  /\ \E ranged \in RangeOrders(DOMAIN hmap) :
       /\ hkeys' = ranged
       /\ hout' = WriteSortedHeaders(hmap, ranged)
  /\ UNCHANGED <<hmap, connVars, reqVars, schedVars>>

HdrNext == SerializeHeaders

SpecHdr == HdrInit /\ [][HdrNext]_vars

(***************************************************************************)
(* ReadRequest on its own, one line at a time.  reqUnit is the request as  *)
(* it was composed: the fields of its first line, which are joined by      *)
(* single spaces, and its header lines, each a key, a separator and a      *)
(* value.  reqLine counts the lines handed to the parser, reqState is the  *)
(* Request being filled, reqErr tells that the latest call returned an     *)
(* error.                                                                  *)
(***************************************************************************)
MaxFields == 4
MaxHdrs == 3

InitLineFields == {GET, tA, Proto, <<>>}

Hdr(key, sep, value) == [key |-> key, sep |-> sep, value |-> value]

colonSp == <<":", SP>>
sAccept == <<"A", "c", "c", "e", "p", "t">>

HeaderLineSet ==
  { Hdr(sHost, colonSp, <<"h">>),
    Hdr(sHostLower, <<":">>, <<"g">>),
    Hdr(sConnection, colonSp, sClose),
    Hdr(sConnLower, <<":", TAB, SP>>, sClose \o <<SP>>),
    Hdr(sConnection, colonSp, <<"k">>),
    Hdr(<<"C", "O", "N", "N", "E", "C", "T", "I", "O", "N">>, colonSp, <<"C", "l", "o", "s", "e">>),
    Hdr(sAccept, colonSp, <<"x">>),
    Hdr(ToLower(sAccept), colonSp, <<"y">>),
    Hdr(sHost \o <<SP>>, colonSp, <<"h">>),
    Hdr(<<>>, <<>>, <<"h">>) }

ReqUnits ==
  {[fields |-> f, hdrs |-> <<>>] : f \in SeqsUpTo(InitLineFields, MaxFields)}
    \cup {[fields |-> <<GET, tA, Proto>>, hdrs |-> h] : h \in SeqsUpTo(HeaderLineSet, MaxHdrs)}

InitLineOf(u) == Join(u.fields, <<SP>>)
HeaderLineOf(h) == h.key \o h.sep \o h.value

ReqInit ==
  /\ ConnIdle
  /\ HdrIdle
  /\ SchedIdle
  /\ reqUnit \in ReqUnits
  /\ reqLine = 0
  /\ reqState = NewRequest
  /\ reqErr = FALSE

\* req.ParseRequestInitLine(Initline), request.go lines 47-51
ParseInitLine ==
  /\ reqLine = 0
  /\ LET p == ParseRequestInitLine(reqState, InitLineOf(reqUnit)) IN
       /\ reqState' = p.req
       /\ reqErr' = p.err
  /\ reqLine' = 1
  /\ UNCHANGED <<reqUnit, connVars, hdrVars, schedVars>>

\* One pass of the header loop, request.go lines 54-64
ParseHeader ==
  /\ reqLine >= 1
  /\ ~reqErr
  /\ reqLine <= Len(reqUnit.hdrs)
  /\ LET h == ParseRequestHeader(reqState, HeaderLineOf(reqUnit.hdrs[reqLine])) IN
       /\ reqState' = h.req
       /\ reqErr' = h.err
  /\ reqLine' = reqLine + 1
  /\ UNCHANGED <<reqUnit, connVars, hdrVars, schedVars>>

ReqNext == ParseInitLine \/ ParseHeader

SpecReq == ReqInit /\ [][ReqNext]_vars

(***************************************************************************)
(* Server.ListenAndServe with two accepted connections, each served by its *)
(* own goroutine (go s.HandleConnection(conn)).  The variables of the      *)
(* connection state machine hold the connection and the locals of the      *)
(* goroutine that runs next, number running; waiting holds those of the    *)
(* other goroutine.  The goroutines interleave at every step.  What they   *)
(* share, s.DocRoot and the files below it, is read only.                  *)
(***************************************************************************)
\* A connection and the locals of its handler.
ConnState ==
  [stream |-> stream, units |-> units, sent |-> sent, remaining |-> remaining,
   pc |-> pc, requests |-> requests, idx |-> idx, out |-> out, lastRead |-> lastRead]

\* What the client of each connection sends.
ServeUnits1 == {<<Unit(GET, tA, Proto, <<hostH>>)>>}
ServeUnits2 == {<<Unit(GET, tB, Proto, <<hostH>>)>>,
                <<Unit(<<"P", "O", "S", "T">>, tA, Proto, <<hostH>>)>>}

\* A connection that was just accepted.
Accepted(us) ==
  [stream |-> StreamOf(us, <<>>), units |-> us, sent |-> 0, remaining |-> <<>>,
   pc |-> "read", requests |-> <<>>, idx |-> 0, out |-> <<>>, lastRead |-> "none"]

ServeInit ==
  /\ units \in ServeUnits1
  /\ stream = StreamOf(units, <<>>)
  /\ sent = 0
  /\ remaining = <<>>
  /\ pc = "read"
  /\ requests = <<>>
  /\ idx = 0
  /\ out = <<>>
  /\ lastRead = "none"
  /\ \E us \in ServeUnits2 : waiting = Accepted(us)
  /\ running = 1
  /\ HdrIdle
  /\ ReqIdle

\* Yield that leaves the buffer where it is, as if remaining were a
\* variable of the package.
YieldSharedBuffer ==
  /\ running' = 3 - running
  /\ waiting' = ConnState
  /\ stream' = waiting.stream
  /\ units' = waiting.units
  /\ sent' = waiting.sent
  /\ remaining' = remaining
  /\ pc' = waiting.pc
  /\ requests' = waiting.requests
  /\ idx' = waiting.idx
  /\ out' = waiting.out
  /\ lastRead' = waiting.lastRead
  /\ UNCHANGED <<hdrVars, reqVars>>

\* The scheduler lets the other goroutine run: each goroutine keeps its own
\* conn, remaining, requests and position.
Yield ==
  /\ running' = 3 - running
  /\ waiting' = ConnState
  /\ stream' = waiting.stream
  /\ units' = waiting.units
  /\ sent' = waiting.sent
  /\ remaining' = waiting.remaining
  /\ pc' = waiting.pc
  /\ requests' = waiting.requests
  /\ idx' = waiting.idx
  /\ out' = waiting.out
  /\ lastRead' = waiting.lastRead
  /\ UNCHANGED <<hdrVars, reqVars>>

ServeNext ==
  \/ \E n \in ReadSizes(Len(stream) - sent) : ReadData(n)
  \/ ReadTimeout
  \/ ReadEOF
  \/ ReadError
  \/ ReadZero
  \/ ProcessRequest
  \/ Yield

SpecServe == ServeInit /\ [][ServeNext]_vars

(***************************************************************************)
(* What the client sent, read off the units it composed                    *)
(***************************************************************************)
\* The value of the last header of u whose key is name in any letter case;
\* none when u has no such header.
RECURSIVE LastHeader(_, _, _)
LastHeader(hdrs, name, none) ==
  IF hdrs = <<>> THEN none
  ELSE IF ToLower(hdrs[Len(hdrs)].key) = name THEN hdrs[Len(hdrs)].value
  ELSE LastHeader(SubSeq(hdrs, 1, Len(hdrs) - 1), name, none)

UnitMethod(u) == u.fields[1]
UnitTarget(u) == u.fields[2]
UnitVersion(u) == u.fields[3]
UnitHost(u) == LastHeader(u.hdrs, sHostLower, <<>>)
UnitWantsClose(u) == TrimSpace(LastHeader(u.hdrs, sConnLower, <<>>)) = sClose

\* Every header line of u is a key without trailing space, a colon, a value.
UnitHeadersWellFormed(u) ==
  \A i \in 1..Len(u.hdrs) : u.hdrs[i].key # <<>> /\ u.hdrs[i].key[Len(u.hdrs[i].key)] # SP

\* The defects of a request unit that section 8 names.
UnitDefective(u) ==
  \/ UnitMethod(u) # GET
  \/ UnitTarget(u) = <<>> \/ Head(UnitTarget(u)) # "/"
  \/ UnitVersion(u) # Proto
  \/ UnitHost(u) = <<>>

UnitValid(u) == ~UnitDefective(u) /\ UnitHeadersWellFormed(u)

\* The number of the unit the handler is working on, or will work on next:
\* every unit before it was answered.
CurrentUnit == Len(out) + 1

\* The handler is about to process its next candidate, and that candidate
\* is the client's unit number CurrentUnit.
AtUnit ==
  /\ pc = "batch"
  /\ CurrentUnit <= Len(units)

LastOut == out[Len(out)]
LastOutNext == out'[Len(out')]

\* The bytes of a 400 response with Connection: close and no body.
Is400Close(w) ==
  /\ w.res.StatusCode = 400
  /\ w.wire.statusLine = Proto \o <<SP, "4", "0", "0", SP>>
                           \o <<"B", "a", "d", SP, "R", "e", "q", "u", "e", "s", "t">> \o CRLF
  /\ Contains(w.wire.headers, sConnection \o <<":", SP>> \o sClose \o CRLF)
  /\ w.wire.body = <<>>

\* The bytes of a 404 response without body.
Is404(w) ==
  /\ w.res.StatusCode = 404
  /\ w.wire.statusLine = Proto \o <<SP, "4", "0", "4", SP>>
                           \o <<"N", "o", "t", SP, "F", "o", "u", "n", "d">> \o CRLF
  /\ w.wire.body = <<>>

\* The i-th entry of out was produced from the text of the i-th unit.
FromUnit(w, u) == w.text \in {UnitText(u), UnitText(u) \o CRLF}

\* Once the connection is closed nothing more is written to it.
NothingAfterClose == pc = "closed" => (out' = out /\ pc' = "closed")

\* The targets of the units that do not resolve: a missing file, a directory
\* without trailing slash, a file with trailing slash, a directory without
\* index.html, a path outside the document root.
UnresolvableTargets ==
  { tB, <<"/", "d">>, <<"/", "a", "/">>, <<"/", "e", "/">>, <<"/", ".", ".", "/", "x">> }

(***************************************************************************)
(* C1.  Responses are written in the order of the requests in the byte     *)
(* stream: at every moment the i-th response written for a request is the  *)
(* response to the i-th unit sent (so no response is written before its    *)
(* predecessor), and when all units are valid and none asks to close, k    *)
(* units delivered yield exactly k responses.                              *)
(***************************************************************************)
AllValidKeepAlive == \A i \in 1..Len(units) : UnitValid(units[i]) /\ ~UnitWantsClose(units[i])

C1_ResponsesInRequestOrder ==
  /\ \A i \in 1..Len(out) :
       out[i].cause = "request" =>
         /\ i <= Len(units)
         /\ FromUnit(out[i], units[i])
         /\ UnitValid(units[i]) =>
              /\ out[i].valid
              /\ out[i].req.URL = UnitTarget(units[i])
              /\ out[i].res.StatusCode \in {200, 404}
  /\ (pc = "batch" /\ AllValidKeepAlive) =>
       Len(out) + (Len(requests) - idx + 1) <= Len(units)
  /\ (pc = "read" /\ sent = Len(stream) /\ AllValidKeepAlive) => Len(out) = Len(units)

\* Two valid requests arrived in one buffer; the first is answered and the
\* second is next.
C1_Witness ==
  /\ Len(units) = 2 /\ AllValidKeepAlive
  /\ UnitTarget(units[1]) # UnitTarget(units[2])
  /\ remaining = stream
  /\ pc = "batch" /\ Len(requests) = 2 /\ idx = 2
  /\ Len(out) = 1 /\ FromUnit(out[1], units[1])

(***************************************************************************)
(* C2.  A complete request unit with a method other than GET, an empty     *)
(* target or one that does not begin with "/", a version other than        *)
(* HTTP/1.1, or no Host header (or an empty last one) is answered with a   *)
(* 400 response carrying Connection: close and no body, and the connection *)
(* is closed.                                                              *)
(***************************************************************************)
C2_DefectiveRequestGets400 ==
  [][ (AtUnit /\ UnitDefective(units[CurrentUnit])) =>
        /\ Len(out') = Len(out) + 1
        /\ SubSeq(out', 1, Len(out)) = out
        /\ FromUnit(LastOutNext, units[CurrentUnit])
        /\ Is400Close(LastOutNext)
        /\ pc' = "closed" ]_vars

\* A request without a usable Host header was answered with 400.
C2_Witness ==
  /\ pc = "closed" /\ out # <<>> /\ Len(out) <= Len(units)
  /\ LastOut.cause = "request"
  /\ UnitMethod(units[Len(out)]) = GET /\ UnitVersion(units[Len(out)]) = Proto
  /\ UnitHost(units[Len(out)]) = <<>>
  /\ Is400Close(LastOut)

(***************************************************************************)
(* C3.  When a valid request that asks to close is processed, its response *)
(* is written, the connection is closed, and nothing is written for any    *)
(* request after it.                                                       *)
(***************************************************************************)
C3_CloseAfterResponse ==
  [][ /\ (AtUnit /\ UnitValid(units[CurrentUnit]) /\ UnitWantsClose(units[CurrentUnit])) =>
           /\ Len(out') = Len(out) + 1
           /\ SubSeq(out', 1, Len(out)) = out
           /\ FromUnit(LastOutNext, units[CurrentUnit])
           /\ LastOutNext.valid /\ LastOutNext.req.Close
           /\ LastOutNext.res.StatusCode \in {200, 404}
           /\ pc' = "closed"
      /\ NothingAfterClose ]_vars

\* A closing request was answered and the request behind it in the same
\* batch was not.
C3_Witness ==
  /\ pc = "closed" /\ Len(out) = 1
  /\ out[1].valid /\ out[1].req.Close
  /\ Len(units) = 2 /\ Len(requests) = 2 /\ idx = 1

(***************************************************************************)
(* C4.  A read that fails or returns nothing while bytes are buffered is   *)
(* answered with one 400 response carrying Connection: close, and the      *)
(* connection is closed.                                                   *)
(***************************************************************************)
C4_PartialRequestGets400 ==
  [][ /\ (pc = "read" /\ remaining # <<>> /\ sent' = sent) =>
           /\ Len(out') = Len(out) + 1
           /\ SubSeq(out', 1, Len(out)) = out
           /\ \A i \in 1..Len(out) : out[i].res.StatusCode # 400
           /\ Is400Close(LastOutNext)
           /\ pc' = "closed"
      /\ NothingAfterClose ]_vars

\* A request was answered, then the read failed on the partial request
\* behind it.
C4_Witness ==
  /\ pc = "closed" /\ Len(out) = 2
  /\ out[1].cause = "request" /\ out[1].res.StatusCode = 200
  /\ out[2].cause = "read" /\ out[2].text # <<>> /\ Is400Close(out[2])

(***************************************************************************)
(* C5.  When the read deadline expires on a connection on which no byte    *)
(* was received, the connection is closed and nothing was written to it.   *)
(***************************************************************************)
C5_IdleTimeoutIsSilent ==
  [][ (sent = 0 /\ ReadTimeout) => (pc' = "closed" /\ out' = <<>>) ]_vars

\* The connection of a client that has bytes to send was closed before any
\* was read.
C5_Witness == sent = 0 /\ pc = "closed" /\ out = <<>> /\ stream # <<>>

(***************************************************************************)
(* C6.  When candidate j of a batch fails parsing or validation, the       *)
(* candidates before it have been answered in order, one 400 response with *)
(* Connection: close is written, the connection is closed, and the         *)
(* candidates after j get no response.                                     *)
(***************************************************************************)
C6_FailFastPerBatch ==
  [][ /\ (AtUnit /\ ~UnitValid(units[CurrentUnit])) =>
           /\ Len(out) >= idx - 1
           /\ \A k \in 1..(idx - 1) : out[Len(out) - (idx - 1) + k].text = requests[k]
           /\ Len(out') = Len(out) + 1
           /\ SubSeq(out', 1, Len(out)) = out
           /\ LastOutNext.text = requests[idx]
           /\ Is400Close(LastOutNext)
           /\ pc' = "closed"
      /\ NothingAfterClose ]_vars

\* The first candidate of a batch failed and the valid one behind it was
\* not answered.
C6_Witness ==
  /\ pc = "closed" /\ Len(out) = 1 /\ Is400Close(out[1])
  /\ Len(requests) = 2 /\ idx = 1
  /\ Len(units) = 2 /\ UnitValid(units[2])

(***************************************************************************)
(* C7.  A valid request whose target does not resolve is answered with     *)
(* 404, and the connection is closed after it exactly when the request     *)
(* asked to close; otherwise the handler goes on with the batch or with    *)
(* the next read.                                                          *)
(***************************************************************************)
C7_NotFoundKeepsConnection ==
  [][ (AtUnit /\ UnitValid(units[CurrentUnit])
         /\ UnitTarget(units[CurrentUnit]) \in UnresolvableTargets) =>
        /\ Len(out') = Len(out) + 1
        /\ SubSeq(out', 1, Len(out)) = out
        /\ FromUnit(LastOutNext, units[CurrentUnit])
        /\ Is404(LastOutNext)
        /\ (pc' = "closed") = UnitWantsClose(units[CurrentUnit])
        /\ ~UnitWantsClose(units[CurrentUnit]) =>
             IF idx < Len(requests) THEN pc' = "batch" /\ idx' = idx + 1
             ELSE pc' = "read" ]_vars

\* A 404 was written and the next request on the connection was served.
C7_Witness ==
  /\ Len(out) = 2
  /\ Is404(out[1]) /\ ~out[1].req.Close
  /\ out[2].res.StatusCode = 200 /\ out[2].wire.body # <<>>

(***************************************************************************)
(* C8.  WriteSortedHeaders writes the headers in ascending lexicographic   *)
(* order of key, each as "Key: value" CRLF, then one CRLF, also for an     *)
(* empty map; the bytes depend on the map alone, not on the order in which *)
(* its keys were inserted or ranged over.                                  *)
(***************************************************************************)
\* a comes before b in byte-wise lexicographic order.
LexBefore(a, b) ==
  \E n \in 0..Len(a) :
     /\ n <= Len(b)
     /\ SubSeq(a, 1, n) = SubSeq(b, 1, n)
     /\ IF n = Len(a) THEN n < Len(b) ELSE n < Len(b) /\ Ord(a[n + 1]) < Ord(b[n + 1])

\* The key of S that comes before every other key of S.
Least(S) == CHOOSE k \in S : \A j \in S \ {k} : LexBefore(k, j)

\* The keys of S in ascending order.
RECURSIVE Ascending(_)
Ascending(S) ==
  IF S = {} THEN <<>>
  ELSE LET k == Least(S) IN <<k>> \o Ascending(S \ {k})

SortedBlock(m) ==
  LET asc == Ascending(DOMAIN m)
  IN Concat([i \in 1..Len(asc) |-> asc[i] \o <<":", SP>> \o m[asc[i]] \o CRLF]) \o CRLF

C8_HeadersSorted == hout # <<>> => hout = SortedBlock(hmap)

\* Three or more headers were ranged over in descending order and written.
C8_Witness ==
  /\ hout # <<>> /\ Len(hkeys) >= 3
  /\ \A i \in 1..(Len(hkeys) - 1) : LexBefore(hkeys[i + 1], hkeys[i])

(***************************************************************************)
(* C9.  ReadRequest returns (request, true, nil) on success; on failure it *)
(* returns a nil request, with bytesReceived true when bytes were read     *)
(* before the error and false only when nothing was read.  The reader the  *)
(* handler passes holds the candidate and a CRLF, so bytes are read.       *)
(***************************************************************************)
C9_BytesReceivedFlag ==
  pc = "batch" =>
    LET br == requests[idx] \o CRLF
        rr == ReadRequest(br)
    IN IF rr.err
       THEN rr.nil /\ (rr.bytesReceived = (Len(br) > 0))
       ELSE ~rr.nil /\ rr.bytesReceived

(***************************************************************************)
(* C10.  A valid GET request whose target resolves to an existing regular  *)
(* file inside the document root is answered with status 200, a            *)
(* Content-Length header equal to the length of the file, and the content  *)
(* of the file as body.                                                    *)
(***************************************************************************)
\* The targets of the units that resolve to a regular file inside DocRoot,
\* and the file each resolves to.
RegularTargets ==
  {tA, <<"/", "d", "/", ".", ".", "/", "a">>, <<"/", "d", "/">>, <<"/", ".", ".", "h">>}
ResolvedFile(target) ==
  CASE target = <<"/", "d", "/">> -> IndexD
    [] target = <<"/", ".", ".", "h">> -> FileDotDotH
    [] OTHER -> FileA

RECURSIVE DecimalValue(_)
DecimalValue(ds) ==
  IF ds = <<>> THEN 0
  ELSE 10 * DecimalValue(SubSeq(ds, 1, Len(ds) - 1)) + (PosIn(DigitChars, ds[Len(ds)]) - 1)

C10_RegularFileIs200 ==
  \A i \in 1..Len(out) :
     (out[i].cause = "request" /\ i <= Len(units) /\ UnitValid(units[i])
        /\ UnitTarget(units[i]) \in RegularTargets) =>
       /\ out[i].res.StatusCode = 200
       /\ sContentLength \in DOMAIN out[i].res.Header
       /\ DecimalValue(out[i].res.Header[sContentLength])
            = Len(FileInfo(ResolvedFile(UnitTarget(units[i]))).content)
       /\ out[i].wire.body = FileInfo(ResolvedFile(UnitTarget(units[i]))).content

(***************************************************************************)
(* C11.  Every request that reaches request handling is fully valid: when  *)
(* ReadRequest returns without error the request is not nil and has method *)
(* GET, a non-empty URL beginning with "/", proto HTTP/1.1 and a non-empty *)
(* Host, and only such requests are given to HandleGoodRequest; on every   *)
(* failing path ReadRequest returns a nil request, which is answered 400.  *)
(***************************************************************************)
FullyValid(r) ==
  /\ r.Method = <<"G", "E", "T">>
  /\ r.URL # <<>> /\ Head(r.URL) = "/"
  /\ r.Proto = <<"H", "T", "T", "P", "/", "1", ".", "1">>
  /\ r.Host # <<>>

C11_HandledRequestsValid ==
  /\ pc = "batch" =>
       LET rr == ReadRequest(requests[idx] \o CRLF)
       IN IF rr.err THEN rr.nil ELSE ~rr.nil /\ FullyValid(rr.req)
  /\ \A i \in 1..Len(out) :
       IF out[i].valid
       THEN FullyValid(out[i].req) /\ out[i].res.StatusCode \in {200, 404}
       ELSE out[i].res.StatusCode = 400

\* A valid request was handled and the candidate behind it in the batch is
\* one for which ReadRequest returns nil.
C11_Witness ==
  /\ pc = "batch" /\ idx = 2 /\ Len(out) = 1
  /\ out[1].valid /\ FullyValid(out[1].req) /\ out[1].res.StatusCode = 200
  /\ ReadRequest(requests[2] \o CRLF).nil

(***************************************************************************)
(* C12.  A request spanning several reads is assembled before it is        *)
(* answered: a successful read appends its bytes to the buffer and writes  *)
(* nothing; while the buffer holds no CRLF CRLF the handler stays open and *)
(* goes on reading; as soon as the buffer holds one, also one whose four   *)
(* bytes came in different reads, the handler turns to the batch, and      *)
(* answers its candidates before it reads again.                           *)
(***************************************************************************)
HasTerminator(s) ==
  \E k \in 1..(Len(s) - 3) : SubSeq(s, k, k + 3) = <<CR, LF, CR, LF>>

C12_AssembledBeforeAnswered ==
  [][ /\ (pc = "read" /\ sent' > sent) =>
           /\ remaining' = remaining \o SubSeq(stream, sent + 1, sent')
           /\ out' = out
           /\ IF HasTerminator(remaining')
              THEN pc' = "batch" /\ idx' = 1 /\ requests' # <<>>
              ELSE pc' = "read"
      /\ pc = "batch" =>
           /\ sent' = sent
           /\ Len(out') = Len(out) + 1
           /\ LastOutNext.cause = "request"
           /\ LastOutNext.text = requests[idx] ]_vars

\* The first batch began on a read that ended behind the first terminator
\* and, being of at most MaxChunk bytes, began at its third byte or later:
\* the four bytes of the terminator arrived in two reads or more.
C12_Witness ==
  /\ pc = "batch" /\ out = <<>> /\ idx = 1
  /\ units # <<>>
  /\ sent = Len(UnitBytes(units[1])) + MaxChunk - 3
  /\ sent < Len(stream)

(***************************************************************************)
(* C13.  When a batch ends without the connection being closed, the buffer *)
(* becomes exactly the bytes that followed the last CRLF CRLF of the       *)
(* buffer: nothing of that tail is lost, repeated or moved, nothing at or  *)
(* before the last terminator is kept.  Hence the buffer is always the end *)
(* of the bytes read so far, and at the start of every read iteration it   *)
(* holds no complete CRLF CRLF.                                            *)
(***************************************************************************)
\* tail is what follows the last occurrence of CRLF CRLF in buf.
FollowsLastTerminator(buf, tail) ==
  \E k \in 1..(Len(buf) - 3) :
     /\ SubSeq(buf, k, k + 3) = <<CR, LF, CR, LF>>
     /\ \A j \in (k + 1)..(Len(buf) - 3) : SubSeq(buf, j, j + 3) # <<CR, LF, CR, LF>>
     /\ tail = SubSeq(buf, k + 4, Len(buf))

\* s is the end of the first n bytes of the stream.
EndOfRead(s, n) == Len(s) <= n /\ s = SubSeq(stream, n - Len(s) + 1, n)

C13_BufferIsTailAfterBatch ==
  [][ /\ (pc = "batch" /\ pc' = "read") => FollowsLastTerminator(remaining, remaining')
      /\ EndOfRead(remaining', sent')
      /\ pc' = "read" => ~HasTerminator(remaining') ]_vars

\* A batch of two requests ended with bytes of a third in the buffer, and
\* the handler is reading again.
C13_Witness ==
  /\ pc = "read" /\ Len(out) = 2 /\ remaining # <<>>
  /\ \A i \in 1..2 : out[i].cause = "request"
  /\ sent = Len(stream)
  /\ stream = UnitBytes(units[1]) \o UnitBytes(units[2]) \o remaining

(***************************************************************************)
(* C14.  When conn.Read fails (timeout, end of stream, any other error) or *)
(* returns zero bytes while the buffer is empty, the handler closes the    *)
(* connection without writing a response and returns, so that it reads no  *)
(* more from that connection.                                              *)
(***************************************************************************)
C14_FailedReadOnEmptyBufferCloses ==
  [][ (pc = "read" /\ remaining = <<>>
         /\ lastRead' \in {"timeout", "EOF", "error", "zero"}) =>
        (pc' = "closed" /\ out' = out) ]_vars

(***************************************************************************)
(* C15.  ParseRequestInitLine takes a request line of exactly three        *)
(* fields separated by single spaces: with three fields it stores them as  *)
(* Method, URL and Proto; with fewer or with more than three it returns an *)
(* error itself and leaves the request as it was.                          *)
(***************************************************************************)
C15_InitLineExactlyThreeFields ==
  reqLine = 1 =>
    IF Len(reqUnit.fields) = 3
    THEN /\ ~reqErr
         /\ reqState.Method = reqUnit.fields[1]
         /\ reqState.URL = reqUnit.fields[2]
         /\ reqState.Proto = reqUnit.fields[3]
    ELSE reqErr /\ reqState = NewRequest

(***************************************************************************)
(* C15, amended.  ParseRequestInitLine cuts the request line at its first  *)
(* two single spaces: a line with fewer than three fields is an error      *)
(* returned by ParseRequestInitLine, which leaves the request as it was; a *)
(* line with three fields or more is accepted, with the first field as     *)
(* Method, the second as URL and the whole rest of the line, spaces        *)
(* included, as Proto.  A line with more than three fields is rejected     *)
(* afterwards by ValidateRequest.                                          *)
(***************************************************************************)
C15_InitLineCutAtTwoSpaces ==
  reqLine = 1 =>
    IF Len(reqUnit.fields) < 3
    THEN reqErr /\ reqState = NewRequest
    ELSE /\ ~reqErr
         /\ reqState.Method = reqUnit.fields[1]
         /\ reqState.URL = reqUnit.fields[2]
         /\ reqState.Proto = Join(SubSeq(reqUnit.fields, 3, Len(reqUnit.fields)), <<" ">>)
         /\ Len(reqUnit.fields) > 3 => ValidateRequest(reqState)

\* A line of four fields, the first three of a valid request, was accepted
\* with the fourth in Proto.
C15_Witness ==
  /\ reqLine = 1 /\ ~reqErr
  /\ Len(reqUnit.fields) = 4
  /\ reqState.Method = GET /\ reqState.URL = tA
  /\ reqState.Proto = Proto \o <<" ">> \o reqUnit.fields[4]

(***************************************************************************)
(* C16.  After any sequence of header lines was parsed, Close is true      *)
(* exactly when the last Connection header (its key in any letter case)    *)
(* has a value that, trimmed of whitespace, is "close" in lower case, so   *)
(* that a later Connection header with another value resets it; Host is    *)
(* the value of the last Host header; and no key of the header map is      *)
(* Host or Connection in any letter case.                                  *)
(***************************************************************************)
\* The header lines that were parsed without error.
ParsedHeaders ==
  IF reqLine = 0 THEN <<>>
  ELSE SubSeq(reqUnit.hdrs, 1, IF reqErr THEN reqLine - 2 ELSE reqLine - 1)

C16_CloseAndHostFromLastHeader ==
  /\ reqState.Close = (TrimSpace(LastHeader(ParsedHeaders, sConnLower, <<>>)) = <<"c", "l", "o", "s", "e">>)
  /\ reqState.Host = LastHeader(ParsedHeaders, sHostLower, <<>>)
  /\ \A k \in DOMAIN reqState.Header : ToLower(k) \notin {sHostLower, sConnLower}

\* A Host header, Connection: close and then a Connection header with
\* another value were parsed: Close is false again.
C16_Witness ==
  /\ reqLine = 4 /\ ~reqErr
  /\ reqUnit.hdrs[1] = Hdr(sHost, colonSp, <<"h">>)
  /\ reqUnit.hdrs[2] = Hdr(sConnection, colonSp, sClose)
  /\ ToLower(reqUnit.hdrs[3].key) = sConnLower /\ reqUnit.hdrs[3].value = <<"k">>
  /\ ~reqState.Close /\ reqState.Host = <<"h">>

(***************************************************************************)
(* C17.  Every key of a parsed request's header map is in canonical        *)
(* casing: header lines whose keys differ only in letter case are stored   *)
(* under one key, so the map never holds two entries for the same header   *)
(* name compared without regard to case.                                   *)
(***************************************************************************)
C17_HeaderKeysCanonical ==
  \A k1, k2 \in DOMAIN reqState.Header : ToLower(k1) = ToLower(k2) => k1 = k2

(***************************************************************************)
(* C18.  Connection handlers are independent.  Under every interleaving of *)
(* the steps of two handlers, a step of one handler leaves the connection, *)
(* buffer and position of the other as they were, and a switch between the *)
(* handlers changes neither; and on each connection the responses and the  *)
(* close decision are those of that connection served alone: the buffer is *)
(* the end of the bytes read from that connection, every response answers  *)
(* the unit sent on that connection, with the response that unit gets by   *)
(* itself, and the connection is closed after a response exactly when that *)
(* response is a 400 or answers a request that asked to close.             *)
(***************************************************************************)
\* The response to the unit u when nothing else is going on.
AloneResponse(u) ==
  LET rr == ReadRequest(UnitText(u) \o CRLF)
  IN IF rr.err THEN HandleBadRequest(NewResponse) ELSE GoodResponse(rr.req)

\* A response after which the handler closes the connection.
ClosingResponse(w) == w.res.StatusCode = 400 \/ (w.valid /\ w.req.Close)

\* The state c of a connection and its handler is one of that connection
\* served alone.
ServedAlone(c) ==
  /\ Len(c.remaining) <= c.sent
  /\ c.remaining = SubSeq(c.stream, c.sent - Len(c.remaining) + 1, c.sent)
  /\ \A i \in 1..Len(c.out) :
       IF c.out[i].cause = "request"
       THEN /\ i <= Len(c.units)
            /\ FromUnit(c.out[i], c.units[i])
            /\ c.out[i].res = AloneResponse(c.units[i])
       ELSE /\ i = Len(c.out)
            /\ c.out[i].text = c.remaining /\ c.remaining # <<>>
            /\ Is400Close(c.out[i])
  /\ \A i \in 1..Len(c.out) :
       ClosingResponse(c.out[i]) => (i = Len(c.out) /\ c.pc = "closed")
  /\ (c.pc = "closed" /\ c.lastRead = "data") =>
       (c.out # <<>> /\ ClosingResponse(c.out[Len(c.out)]))

C18_HandlersIndependent ==
  [][ /\ IF running' = running
         THEN waiting' = waiting
         ELSE waiting' = ConnState /\ ConnState' = waiting
      /\ ServedAlone(ConnState')
      /\ ServedAlone(waiting') ]_vars

\* The first connection was answered while the second had sent part of its
\* request, and the second goes on.
C18_Witness ==
  /\ running = 2
  /\ Len(waiting.out) = 1 /\ waiting.out[1].res.StatusCode = 200
  /\ pc = "read" /\ out = <<>>
  /\ 0 < sent /\ sent < Len(stream)
  /\ remaining # <<>> /\ lastRead = "data"
  /\ waiting.pc = "read" /\ waiting.lastRead = "data"

(***************************************************************************)
(* C19.  Framing does not depend on how the byte stream is cut into reads: *)
(* when the whole stream was read and the read deadline then expired, or   *)
(* the handler closed the connection in a batch, the status codes of the   *)
(* responses written, a final 400 included, are those written when the     *)
(* same stream arrives in a single read.                                   *)
(***************************************************************************)
\* The status codes written for the candidates reqs[i], reqs[i+1], ..., and
\* whether the handler closed the connection among them.
RECURSIVE BatchCodes(_, _)
BatchCodes(reqs, i) ==
  IF i > Len(reqs) THEN [codes |-> <<>>, closed |-> FALSE]
  ELSE LET rr == ReadRequest(reqs[i] \o CRLF) IN
       IF rr.err THEN [codes |-> <<400>>, closed |-> TRUE]
       ELSE LET code == GoodResponse(rr.req).StatusCode IN
            IF ShouldClose(rr.req, GoodResponse(rr.req))
            THEN [codes |-> <<code>>, closed |-> TRUE]
            ELSE LET rest == BatchCodes(reqs, i + 1)
                 IN [codes |-> <<code>> \o rest.codes, closed |-> rest.closed]

\* The status codes written when s arrives in one read that is followed by
\* a timeout.
SingleReadCodes(s) ==
  IF ~Contains(s, requestEndDelim)
  THEN (IF s # <<>> THEN <<400>> ELSE <<>>)
  ELSE LET b == BatchCodes(SplitRequests(s), 1) IN
       IF b.closed \/ TailAfter(s) = <<>> THEN b.codes ELSE b.codes \o <<400>>

C19_FramingIndependentOfChunking ==
  (pc = "closed" /\ (lastRead = "data" \/ (lastRead = "timeout" /\ sent = Len(stream)))) =>
    [i \in 1..Len(out) |-> out[i].res.StatusCode] = SingleReadCodes(stream)

(***************************************************************************)
(* C20.  The header Connection: close and the close decision agree: every  *)
(* response after which the handler closes the connection (a 400, or a 200 *)
(* or 404 to a request whose Close flag is set) carries Connection: close, *)
(* and every response that carries it is the last thing written on the     *)
(* connection, which is closed in the step that writes it.                 *)
(***************************************************************************)
\* The header block of w has the line Connection: close.
CarriesClose(w) ==
  LET line == <<"C", "o", "n", "n", "e", "c", "t", "i", "o", "n", ":", " ",
                "c", "l", "o", "s", "e", "\r", "\n">>
      h == w.wire.headers
  IN \/ Len(h) >= Len(line) /\ SubSeq(h, 1, Len(line)) = line
     \/ \E k \in 1..(Len(h) - Len(line) - 1) :
          SubSeq(h, k, k + Len(line) + 1) = <<"\r", "\n">> \o line

C20_CloseHeaderAgreesWithClose ==
  [][ /\ out' # out =>
           /\ Len(out') = Len(out) + 1
           /\ SubSeq(out', 1, Len(out)) = out
           /\ CarriesClose(LastOutNext) = (pc' = "closed")
           /\ (LastOutNext.res.StatusCode = 400 \/ LastOutNext.req.Close) => pc' = "closed"
      /\ \A i \in 1..Len(out) : CarriesClose(out[i]) => (i = Len(out) /\ pc = "closed")
      /\ NothingAfterClose ]_vars

\* A 404 to a request that asked to close was written with Connection:
\* close, and the connection is closed.
C20_Witness ==
  /\ pc = "closed" /\ Len(out) = 1
  /\ out[1].res.StatusCode = 404 /\ out[1].valid /\ out[1].req.Close
  /\ CarriesClose(out[1])

====
